---- MODULE Spec2Model ----
(***************************************************************************)
(* Persistent property store of native/src/core/resetprop/persist.rs.      *)
(*                                                                         *)
(* The store keeps named string properties either in one protobuf          *)
(* container file (/data/property/persistent_properties) or, when that     *)
(* file does not exist, in one flat file per property under                *)
(* /data/property.  Strings are modelled as sequences of bytes, files as   *)
(* byte contents plus an attribute label, and every public function as a   *)
(* sequence of steps, one per file-system call, so that calls of several   *)
(* processes and injected I/O failures interleave between the steps.       *)
(***************************************************************************)
EXTENDS Integers, Sequences, FiniteSets, TLC

\* ------------------------------------------------------------------ bounds

\* Number of public calls made in one run.
MaxOps == 3

\* Number of times the external actor creates or removes the container, and
\* number of public calls made in a run beside the external actor.
MaxExt == 2
MaxExtOps == 2

\* Number of public calls two concurrent callers make between them.
MaxConcOps == 2

\* Number of public calls made on a store that was not written by these calls.
MaxAnyOps == 1

\* Capacity of the BufWriter that wraps the temporary file (std's default is
\* 8 KiB; scaled to the size of the model's indexes so that an index of three
\* records spills to the file while it is being encoded).
BufCap == 20

\* ------------------------------------------------------------- data model

Procs == {1, 2}

\* Property names and values are byte strings.  <<1>> is a proper prefix of
\* <<1, 2>>, so the byte-lexicographic order is not the order of lengths, and
\* no value is a prefix of another, so a truncated value is never a value.
Names == {<<1>>, <<1, 2>>, <<2>>}
Values == {<<5, 6>>, <<6, 5>>}

\* Option<T>: None, or Some(x).
None == <<>>
Some(x) == <<x>>
IsSome(o) == Len(o) = 1
Unwrap(o) == o[1]

\* PersistentPropertyRecord { name: Option<String>, value: Option<String> }
Record(n, v) == [name |-> n, value |-> v]

\* Ordering of byte strings, as str::cmp compares them: byte-lexicographic.
StrLess(a, b) ==
    \E i \in 1..(Len(a) + 1) :
        /\ \A j \in 1..(i - 1) : j <= Len(b) /\ a[j] = b[j]
        /\ \/ i = Len(a) + 1 /\ Len(b) >= i
           \/ i <= Len(a) /\ i <= Len(b) /\ a[i] < b[i]

\* Ordering of Option<String>, as Option::cmp compares: None is the least.
OptLess(a, b) ==
    \/ ~IsSome(a) /\ IsSome(b)
    \/ IsSome(a) /\ IsSome(b) /\ StrLess(Unwrap(a), Unwrap(b))

\* ---------------------------------------------------------- wire encoding

\* Tags of the protobuf wire format (field number * 8 + wire type 2).
TagField1 == 10
TagField2 == 18

\* One record: the fields that are present, each as tag, length, bytes.
EncodeRecord(r) ==
    (IF IsSome(r.name)
        THEN <<TagField1, Len(Unwrap(r.name))>> \o Unwrap(r.name) ELSE <<>>)
    \o (IF IsSome(r.value)
        THEN <<TagField2, Len(Unwrap(r.value))>> \o Unwrap(r.value) ELSE <<>>)

\* The pieces write_message hands to the writer, in order: every tag and
\* every length is written as a byte of its own, every string in one piece.
PiecesOfRecord(r) ==
    (IF IsSome(r.name)
        THEN << <<TagField1>>, <<Len(Unwrap(r.name))>>, Unwrap(r.name) >> ELSE <<>>)
    \o (IF IsSome(r.value)
        THEN << <<TagField2>>, <<Len(Unwrap(r.value))>>, Unwrap(r.value) >> ELSE <<>>)

RECURSIVE Pieces(_)
Pieces(props) ==
    IF props = <<>> THEN <<>>
    ELSE << <<TagField1>>, <<Len(EncodeRecord(Head(props)))>> >>
         \o PiecesOfRecord(Head(props)) \o Pieces(Tail(props))

RECURSIVE Flatten(_)
Flatten(pieces) ==
    IF pieces = <<>> THEN <<>> ELSE Head(pieces) \o Flatten(Tail(pieces))

\* The bytes of a container holding the records props, in that order.
Encode(props) == Flatten(Pieces(props))

\* The result of a decode: the records, and whether the bytes decoded.
Decoded(props, ok) == [props |-> props, ok |-> ok]
BadDecode == Decoded(<<>>, FALSE)

\* The fields of one record; a later field of the same number replaces an
\* earlier one.  A field that runs past the end of the record is an error.
RECURSIVE DecodeRecord(_, _)
DecodeRecord(bytes, rec) ==
    IF bytes = <<>> THEN [ok |-> TRUE, rec |-> rec]
    ELSE IF Len(bytes) < 2 \/ Len(bytes) < 2 + bytes[2]
        THEN [ok |-> FALSE, rec |-> rec]
    ELSE LET payload == SubSeq(bytes, 3, 2 + bytes[2])
             rest == SubSeq(bytes, 3 + bytes[2], Len(bytes))
         IN IF bytes[1] = TagField1
                THEN DecodeRecord(rest, [rec EXCEPT !.name = Some(payload)])
            ELSE IF bytes[1] = TagField2
                THEN DecodeRecord(rest, [rec EXCEPT !.value = Some(payload)])
            ELSE [ok |-> FALSE, rec |-> rec]

\* The records of a container, in file order.  A record that runs past the
\* end of the file, or bytes that are no record, are an error.
RECURSIVE Decode(_)
Decode(bytes) ==
    IF bytes = <<>> THEN Decoded(<<>>, TRUE)
    ELSE IF Len(bytes) < 2 \/ Len(bytes) < 2 + bytes[2] \/ bytes[1] # TagField1
        THEN BadDecode
    ELSE LET r == DecodeRecord(SubSeq(bytes, 3, 2 + bytes[2]), Record(None, None))
             rest == Decode(SubSeq(bytes, 3 + bytes[2], Len(bytes)))
         IN IF r.ok /\ rest.ok
                THEN Decoded(<<r.rec>> \o rest.props, TRUE)
                ELSE BadDecode

\* ------------------------------------------------------------ the index

\* The comparison of the sort with its arguments exchanged: descending names.
SortedByNameDescending(list) ==
    \A i \in 1..(Len(list) - 1) : ~OptLess(list[i].name, list[i + 1].name)

\* Whether a list is ordered as sort_unstable_by(|a, b| a.name.cmp(&b.name))
\* leaves it: no record's name is less than the name before it.
SortedByName(list) ==
    \A i \in 1..(Len(list) - 1) : ~OptLess(list[i + 1].name, list[i].name)

IndexOrders(n) ==
    {f \in [1..n -> 1..n] : \A i, j \in 1..n : f[i] = f[j] => i = j}

\* A decode that leaves the records in file order.
SortResultsFileOrder(list) == {list}

\* The lists the sort may leave: the orderings of the same records that are
\* sorted by name.  The sort is unstable, so records of equal names may end
\* in either order; with distinct names there is exactly one result.
SortResults(list) ==
    {s \in {[i \in 1..Len(list) |-> list[f[i]]] : f \in IndexOrders(Len(list))} :
        SortedByName(s)}

\* slice::binary_search_by with the comparison of find_index: the record's
\* name against Some(name).  Positions count from 1; Err carries the
\* insertion point.
RECURSIVE BinarySearch(_, _, _, _)
BinarySearch(props, name, left, right) ==
    IF left >= right THEN [ok |-> FALSE, idx |-> left + 1]
    ELSE LET mid == left + ((right - left) \div 2)
             probe == props[mid + 1].name
         IN IF OptLess(probe, Some(name))
                THEN BinarySearch(props, name, mid + 1, right)
            ELSE IF OptLess(Some(name), probe)
                THEN BinarySearch(props, name, left, mid)
            ELSE [ok |-> TRUE, idx |-> mid + 1]

find_index(props, name) == BinarySearch(props, name, 0, Len(props))

InsertAt(list, idx, x) ==
    SubSeq(list, 1, idx - 1) \o <<x>> \o SubSeq(list, idx, Len(list))

RemoveAt(list, idx) ==
    SubSeq(list, 1, idx - 1) \o SubSeq(list, idx + 1, Len(list))

\* A set that inserts a record whether or not the name is already there.
UpsertAlwaysInserts(props, name, value) ==
    InsertAt(props, find_index(props, name).idx, Record(Some(name), Some(value)))

\* A set that changes a copy of the index and writes the original back.
UpsertOnCopy(props, name, value) == props

\* The match of persist_set_prop: overwrite the value at a hit, insert a new
\* record at the insertion point at a miss.
Upsert(props, name, value) ==
    LET f == find_index(props, name)
    IN IF f.ok THEN [props EXCEPT ![f.idx].value = Some(value)]
       ELSE InsertAt(props, f.idx, Record(Some(name), Some(value)))

\* A record with both fields present, the pattern persist_get_prop and
\* persist_get_props match before they call the sink.
IsLive(r) == IsSome(r.name) /\ IsSome(r.value)

\* The sink calls of persist_get_props on a decoded index: one per record
\* with both fields, in index order.
RECURSIVE GetAllCalls(_)
GetAllCalls(props) ==
    IF props = <<>> THEN <<>>
    ELSE (IF IsLive(Head(props))
             THEN << <<Unwrap(Head(props).name), Unwrap(Head(props).value)>> >>
             ELSE <<>>)
         \o GetAllCalls(Tail(props))

\* A lookup that scans the index and reports every record of the name.
GetCallsEveryMatch(props, name) ==
    GetAllCalls(SelectSeq(props, LAMBDA r : r.name = Some(name)))

\* The sink calls of persist_get_prop on a decoded index.
GetCalls(props, name) ==
    LET f == find_index(props, name)
    IN IF f.ok /\ IsLive(props[f.idx])
          THEN << <<Unwrap(props[f.idx].name), Unwrap(props[f.idx].value)>> >>
          ELSE <<>>

\* What write_message leaves in the temporary file and in the BufWriter: a
\* piece that does not fit in the spare capacity flushes the buffer first.
Writer(buf, file) == [buf |-> buf, file |-> file]

RECURSIVE BufWrite(_, _)
BufWrite(w, pieces) ==
    IF pieces = <<>> THEN w
    ELSE LET d == Head(pieces)
         IN IF Len(d) < BufCap - Len(w.buf)
               THEN BufWrite([w EXCEPT !.buf = @ \o d], Tail(pieces))
            ELSE IF Len(d) >= BufCap
               THEN BufWrite(Writer(<<>>, w.file \o w.buf \o d), Tail(pieces))
            ELSE BufWrite(Writer(d, w.file \o w.buf), Tail(pieces))

Prefixes(bytes) == {SubSeq(bytes, 1, k) : k \in 0..Len(bytes)}
StrictPrefixes(bytes) == {SubSeq(bytes, 1, k) : k \in 0..(Len(bytes) - 1)}

\* ---------------------------------------------------------------- state

\* The file name of the container inside /data/property (PERSIST_PROP is
\* PERSIST_PROP_DIR joined with it), "persistent_properties" as one byte.
PersistName == <<9>>

\* Paths, as the pieces the macros and concat! put together; "/" separates
\* the components.
PERSIST_PROP_DIR == <<"/", "data", "/", "property">>
PERSIST_PROP == PERSIST_PROP_DIR \o <<"/", "persistent_properties">>

\* The templates handed to mkstemp, which fills in the XXXXXX and creates
\* the file at that path.
FileTmpTemplate == PERSIST_PROP_DIR \o <<".prop.XXXXXX">>
ProtoTmpTemplate == PERSIST_PROP \o <<".XXXXXX">>

\* The directory a path's file is an entry of: the path up to its last "/".
RECURSIVE Dirname(_)
Dirname(path) ==
    IF path = <<>> THEN <<>>
    ELSE IF path[Len(path)] = "/" THEN SubSeq(path, 1, Len(path) - 1)
    ELSE Dirname(SubSeq(path, 1, Len(path) - 1))

\* A file name that is not valid UTF-8 (a lone continuation byte), and the
\* test Utf8CStr::from_bytes makes of a directory entry's name.
BadName == <<200>>
IsValidText(bytes) == \A i \in 1..Len(bytes) : bytes[i] < 128

\* The names a caller can pass: Utf8CStr::from_ptr takes any valid text, the
\* container's file name included.
CallerNames == Names \cup {PersistName}

\* The file names of /data/property that the model follows.
EntryNames == CallerNames \cup {BadName}

\* A file: whether it exists, its bytes, and its attributes (owner, mode and
\* security label as one label: "orig" is what the system gave the container,
\* "mkstemp" is what a file fresh from mkstemp carries).
NoFile == [bytes |-> <<>>, exists |-> FALSE, attr |-> "none"]
File(bytes, attr) == [bytes |-> bytes, exists |-> TRUE, attr |-> attr]

\* A call: the public function and its arguments.
Call(kind, name, value) == [name |-> name, value |-> value, kind |-> kind]
NoOp == Call("none", <<>>, <<>>)

VARIABLES
    fs,        \* the files of /data/property, by file name
    tmp,       \* per process: the temporary file of its call, from mkstemp
    fopen,     \* per process: whether the handle on its temporary file is open
    pc,        \* per process: the step its call is at; "idle" between calls
    op,        \* per process: the public function called and its arguments
    proto,     \* per process: what check_proto answered for the call
    props,     \* per process: the decoded index of the call
    buf,       \* per process: the bytes the BufWriter still holds
    walk,      \* per process: the directory entries for_all_file has yet to visit
    result,    \* per process: "pending", or the call's inner result "ok"/"err"
    sink,      \* per process: the calls made to the sink, in order
    pre,       \* per process: the files as they were when the call began
    used,      \* per process: the backends whose functions the call has run
    nchecks,   \* per process: how often the call has run check_proto
    fault,     \* per process: the file-system call of the call that failed, or "none"
    failed,    \* per process: the file-system calls of the call that have failed
    skipped,   \* per process: the directory entries whose read failed in the walk
    tmppath,   \* per process: the path mkstemp made for the call's temporary file
    readErr,   \* per process: why proto_read_props failed: "noent", "corrupt", or "none"
    seen,      \* per process: for a get_prop, the values its name has had since the call began
    nops,      \* the number of calls begun
    extSteps,      \* the number of steps the external actor has taken
    clean,     \* whether no step has failed so far
    written,   \* by name: the value of the last set_prop that returned true, None
               \* before any and after a delete_prop that returned true
    deleted,   \* the names for which a delete_prop has returned true
    overwrote, \* whether a set_prop has returned true for a name that had a value
    committed, \* by name: the value the store holds by the last rename or unlink
    lastRename \* the process whose rename over the container came last, or 0

procVars == <<tmp, fopen, pc, op, proto, props, buf, walk, result, sink>>
ghostVars == <<pre, tmppath, used, nchecks, fault, failed, skipped, readErr, seen, nops, extSteps, clean, written,
               deleted, overwrote, committed, lastRename>>
\* The history but for the path of the temporary file.
otherGhostVars == <<pre, used, nchecks, fault, failed, skipped, readErr, seen, nops, extSteps, clean,
                    written, deleted, overwrote, committed, lastRename>>
vars == <<fs, procVars, ghostVars>>

ContainerPath == PersistName
container == fs[ContainerPath]

NoneWritten == [n \in CallerNames |-> None]

InitCommon ==
    /\ tmp = [p \in Procs |-> NoFile]
    /\ fopen = [p \in Procs |-> FALSE]
    /\ pc = [p \in Procs |-> "idle"]
    /\ op = [p \in Procs |-> NoOp]
    /\ proto = [p \in Procs |-> FALSE]
    /\ props = [p \in Procs |-> <<>>]
    /\ buf = [p \in Procs |-> <<>>]
    /\ walk = [p \in Procs |-> {}]
    /\ result = [p \in Procs |-> "pending"]
    /\ sink = [p \in Procs |-> <<>>]
    /\ used = [p \in Procs |-> {}]
    /\ nchecks = [p \in Procs |-> 0]
    /\ fault = [p \in Procs |-> "none"]
    /\ failed = [p \in Procs |-> {}]
    /\ skipped = [p \in Procs |-> {}]
    /\ tmppath = [p \in Procs |-> <<>>]
    /\ readErr = [p \in Procs |-> "none"]
    /\ seen = [p \in Procs |-> {}]
    /\ nops = 0
    /\ extSteps = 0
    /\ clean = TRUE
    /\ deleted = {}
    /\ overwrote = FALSE
    /\ lastRename = 0

\* An empty store, in either mode: an empty container with the system's
\* attributes, or no container and no flat file.
Init ==
    /\ \/ fs = [e \in EntryNames |-> IF e = PersistName THEN File(<<>>, "orig") ELSE NoFile]
       \/ fs = [e \in EntryNames |-> NoFile]
    /\ pre = [p \in Procs |-> fs]
    /\ written = NoneWritten
    /\ committed = NoneWritten
    /\ InitCommon

\* A store that holds the one property (name, value), in either mode, as a
\* set_prop on the empty store leaves it.
InitOneProp(name, value) ==
    /\ \/ fs = [e \in EntryNames |->
                 IF e = PersistName
                    THEN File(Encode(<<Record(Some(name), Some(value))>>), "orig")
                    ELSE NoFile]
       \/ fs = [e \in EntryNames |->
                 IF e = name THEN File(value, "mkstemp") ELSE NoFile]
    /\ pre = [p \in Procs |-> fs]
    /\ InitCommon

InitConc ==
    \/ Init
    \/ /\ InitOneProp(<<1, 2>>, <<5, 6>>)
       /\ written = [NoneWritten EXCEPT ![<<1, 2>>] = Some(<<5, 6>>)]
       /\ committed = [NoneWritten EXCEPT ![<<1, 2>>] = Some(<<5, 6>>)]

\* The records another writer of the container may leave in it: either
\* field may be absent, names may repeat, and the order is the writer's.
ForeignRecords ==
    {Record(n, v) : n \in {None, Some(<<1>>), Some(<<2>>)},
                    v \in {None} \cup {Some(x) : x \in Values}}

ForeignIndexes ==
    {<<>>} \cup {<<r>> : r \in ForeignRecords}
           \cup {<<r, q>> : r \in ForeignRecords, q \in ForeignRecords}

\* Bytes that are no encoding of an index: a record cut short.
CorruptBytes == <<TagField1, 3, TagField1>>

ForeignContents == {Encode(idx) : idx \in ForeignIndexes} \cup {CorruptBytes}

\* The flat-file directories another writer may leave: any of three entries,
\* the one of the invalid name included, each with one of the values.
ForeignDirs == [{<<1>>, <<2>>, BadName} -> {None} \cup {Some(x) : x \in Values}]

\* A store this code did not write, in either mode.
InitAny ==
    /\ \/ \E bytes \in ForeignContents :
             fs = [e \in EntryNames |->
                     IF e = PersistName THEN File(bytes, "orig") ELSE NoFile]
       \/ \E d \in ForeignDirs :
             fs = [e \in EntryNames |->
                     IF e \in DOMAIN d /\ IsSome(d[e])
                        THEN File(Unwrap(d[e]), "orig") ELSE NoFile]
    /\ pre = [p \in Procs |-> fs]
    /\ written = NoneWritten
    /\ committed = NoneWritten
    /\ InitCommon

\* ------------------------------------------------------- the public calls

\* The value the index props holds for name n, as persist_get_prop finds it.
IndexValue(idx, n) ==
    IF GetCalls(idx, n) = <<>> THEN None ELSE Some(GetCalls(idx, n)[1][2])

\* The readers in flight learn the value their name has now.
Observe(now) ==
    [q \in Procs |->
        IF op[q].kind = "get" /\ pc[q] # "idle"
           THEN seen[q] \cup {now[op[q].name]} ELSE seen[q]]

\* A call begins: the arguments are taken (Utf8CStr::from_ptr succeeds on
\* the valid text the model passes) and the mode check comes first.
Begin(p, o) ==
    /\ pc[p] = "idle"
    /\ nops < MaxOps
    /\ nops' = nops + 1
    /\ pc' = [pc EXCEPT ![p] = "check"]
    /\ op' = [op EXCEPT ![p] = o]
    /\ tmp' = [tmp EXCEPT ![p] = NoFile]
    /\ fopen' = [fopen EXCEPT ![p] = FALSE]
    /\ proto' = [proto EXCEPT ![p] = FALSE]
    /\ props' = [props EXCEPT ![p] = <<>>]
    /\ buf' = [buf EXCEPT ![p] = <<>>]
    /\ walk' = [walk EXCEPT ![p] = {}]
    /\ result' = [result EXCEPT ![p] = "pending"]
    /\ sink' = [sink EXCEPT ![p] = <<>>]
    /\ pre' = [pre EXCEPT ![p] = fs]
    /\ used' = [used EXCEPT ![p] = {}]
    /\ nchecks' = [nchecks EXCEPT ![p] = 0]
    /\ fault' = [fault EXCEPT ![p] = "none"]
    /\ failed' = [failed EXCEPT ![p] = {}]
    /\ skipped' = [skipped EXCEPT ![p] = {}]
    /\ tmppath' = [tmppath EXCEPT ![p] = <<>>]
    /\ readErr' = [readErr EXCEPT ![p] = "none"]
    /\ seen' = [seen EXCEPT ![p] = IF o.kind = "get" THEN {committed[o.name]} ELSE {}]
    /\ UNCHANGED <<fs, extSteps, clean, written, deleted, overwrote, committed, lastRename>>

persist_get_prop(p) ==
    \E n \in Names : Begin(p, Call("get", n, <<>>))

persist_get_props(p) ==
    Begin(p, Call("get_all", <<>>, <<>>))

persist_delete_prop(p) ==
    \E n \in Names : Begin(p, Call("delete", n, <<>>))

persist_set_prop(p) ==
    \E n \in Names, v \in Values : Begin(p, Call("set", n, v))

\* The same calls on the name of the container's file, which is valid text
\* like any property name.
get_prop_container_name(p) ==
    Begin(p, Call("get", PersistName, <<>>))

delete_prop_container_name(p) ==
    Begin(p, Call("delete", PersistName, <<>>))

set_prop_container_name(p) ==
    \E v \in Values : Begin(p, Call("set", PersistName, v))

\* The step a call takes after the mode check.
FirstStep(kind, isProto) ==
    IF isProto THEN "read"
    ELSE CASE kind = "get" -> "fget"
           [] kind = "get_all" -> "fopendir"
           [] kind = "set" -> "fmkstemp"
           [] OTHER -> "fremove"

\* check_proto: whether the container file exists, asked once per call.
check_proto(p) ==
    /\ pc[p] = "check"
    /\ proto' = [proto EXCEPT ![p] = container.exists]
    /\ nchecks' = [nchecks EXCEPT ![p] = @ + 1]
    /\ pc' = [pc EXCEPT ![p] = FirstStep(op[p].kind, container.exists)]
    /\ UNCHANGED <<fs, tmp, fopen, op, props, buf, walk, result, sink, pre, tmppath, used,
                   fault, failed, skipped, readErr, seen, nops, extSteps, clean, written, deleted, overwrote, committed,
                   lastRename>>

\* ------------------------------------------------- the container backend

\* MappedFile::open and from_reader of proto_read_props on the file at the
\* container path: a file that does not exist cannot be opened.
\* A read that takes a missing container for an empty index.
ReadContainerOrEmpty(file) ==
    IF file.exists THEN Decode(file.bytes) ELSE Decoded(<<>>, TRUE)

ReadContainer(file) ==
    IF file.exists THEN Decode(file.bytes) ELSE BadDecode

\* A call that falls back to the flat-file backend when the container cannot
\* be read.
OnReadErrorFallBack(kind) == FirstStep(kind, FALSE)

\* Where a call goes when proto_read_props fails: the ? returns the error
\* from the call.
OnReadError(kind) == "idle"

\* A delete that takes a record without a value for a miss.
DeleteInMemoryLiveOnly(idx, name) ==
    IF find_index(idx, name).ok /\ IsLive(idx[find_index(idx, name).idx])
       THEN [props |-> RemoveAt(idx, find_index(idx, name).idx), found |-> TRUE]
       ELSE [props |-> idx, found |-> FALSE]

\* A delete that does not tell a miss from a hit.
DeleteInMemoryAlwaysFound(idx, name) ==
    IF find_index(idx, name).ok
       THEN [props |-> RemoveAt(idx, find_index(idx, name).idx), found |-> TRUE]
       ELSE [props |-> idx, found |-> TRUE]

\* The index persist_delete_prop writes back, and whether find_index hit: at
\* a miss nothing is written and the call fails.
DeleteInMemory(idx, name) ==
    IF find_index(idx, name).ok
       THEN [props |-> RemoveAt(idx, find_index(idx, name).idx), found |-> TRUE]
       ELSE [props |-> idx, found |-> FALSE]

\* proto_read_props, and what the caller does with the index in memory:
\* persist_get_prop and persist_get_props call the sink, persist_delete_prop
\* removes the record or fails, persist_set_prop overwrites or inserts.
proto_read_props(p) ==
    /\ pc[p] = "read"
    /\ used' = [used EXCEPT ![p] = @ \cup {"proto"}]
    /\ readErr' = [readErr EXCEPT ![p] =
           IF ~container.exists THEN "noent"
           ELSE IF ~ReadContainer(container).ok THEN "corrupt" ELSE "none"]
    /\ IF ~ReadContainer(container).ok
          THEN /\ pc' = [pc EXCEPT ![p] = OnReadError(op[p].kind)]
               /\ result' = [result EXCEPT ![p] =
                      IF OnReadError(op[p].kind) = "idle" THEN "err" ELSE @]
               /\ UNCHANGED <<props, sink>>
          ELSE \E s \in SortResults(ReadContainer(container).props) :
                 CASE op[p].kind = "get" ->
                        /\ props' = [props EXCEPT ![p] = s]
                        /\ sink' = [sink EXCEPT ![p] = GetCalls(s, op[p].name)]
                        /\ pc' = [pc EXCEPT ![p] = "idle"]
                        /\ result' = [result EXCEPT ![p] = "ok"]
                   [] op[p].kind = "get_all" ->
                        /\ props' = [props EXCEPT ![p] = s]
                        /\ sink' = [sink EXCEPT ![p] = GetAllCalls(s)]
                        /\ pc' = [pc EXCEPT ![p] = "idle"]
                        /\ result' = [result EXCEPT ![p] = "ok"]
                   [] op[p].kind = "delete" ->
                        /\ props' = [props EXCEPT ![p] = DeleteInMemory(s, op[p].name).props]
                        /\ IF DeleteInMemory(s, op[p].name).found
                              THEN /\ pc' = [pc EXCEPT ![p] = "mkstemp"]
                                   /\ UNCHANGED result
                              ELSE /\ pc' = [pc EXCEPT ![p] = "idle"]
                                   /\ result' = [result EXCEPT ![p] = "err"]
                        /\ UNCHANGED sink
                   [] OTHER ->
                        /\ props' = [props EXCEPT ![p] =
                               Upsert(s, op[p].name, op[p].value)]
                        /\ pc' = [pc EXCEPT ![p] = "mkstemp"]
                        /\ UNCHANGED <<result, sink>>
    /\ UNCHANGED <<fs, tmp, fopen, op, proto, buf, walk, pre, tmppath, nchecks, fault, failed, skipped, seen,
                   nops, extSteps, clean, written, deleted, overwrote, committed, lastRename>>

\* A write that opens the container itself with truncation instead of a
\* temporary file beside it.
write_in_place(p) ==
    /\ pc[p] = "mkstemp"
    /\ fs' = [fs EXCEPT ![ContainerPath] = File(<<>>, "mkstemp")]
    /\ tmp' = [tmp EXCEPT ![p] = File(<<>>, "mkstemp")]
    /\ fopen' = [fopen EXCEPT ![p] = TRUE]
    /\ pc' = [pc EXCEPT ![p] = "encode"]
    /\ tmppath' = [tmppath EXCEPT ![p] = ProtoTmpTemplate]
    /\ UNCHANGED <<op, proto, props, buf, walk, result, sink, otherGhostVars>>

\* proto_write_props, step 1: mkstemp creates the temporary file beside the
\* container and the call holds it open.
write_mkstemp(p) ==
    /\ pc[p] = "mkstemp"
    /\ tmp' = [tmp EXCEPT ![p] = File(<<>>, "mkstemp")]
    /\ fopen' = [fopen EXCEPT ![p] = TRUE]
    /\ pc' = [pc EXCEPT ![p] = "encode"]
    /\ tmppath' = [tmppath EXCEPT ![p] = ProtoTmpTemplate]
    /\ UNCHANGED <<fs, op, proto, props, buf, walk, result, sink, otherGhostVars>>

\* proto_write_props, step 2: write_message encodes the index through the
\* BufWriter; what does not fit in the buffer reaches the file now.
write_encode(p) ==
    /\ pc[p] = "encode"
    /\ LET w == BufWrite(Writer(<<>>, <<>>), Pieces(props[p]))
       IN /\ tmp' = [tmp EXCEPT ![p].bytes = w.file]
          /\ buf' = [buf EXCEPT ![p] = w.buf]
    /\ pc' = [pc EXCEPT ![p] = "close"]
    /\ UNCHANGED <<fs, fopen, op, proto, props, walk, result, sink, ghostVars>>

\* A write whose file handle outlives the block: the bytes are flushed, the
\* handle stays open through clone_attr and rename.
write_close_handle_kept(p) ==
    /\ pc[p] = "close"
    /\ tmp' = [tmp EXCEPT ![p].bytes = @ \o buf[p]]
    /\ buf' = [buf EXCEPT ![p] = <<>>]
    /\ pc' = [pc EXCEPT ![p] = "clone"]
    /\ UNCHANGED <<fs, fopen, op, proto, props, walk, result, sink, ghostVars>>

\* proto_write_props, step 3: the block ends, the BufWriter and the File are
\* dropped: the buffered bytes are flushed and the handle is closed.
write_close(p) ==
    /\ pc[p] = "close"
    /\ tmp' = [tmp EXCEPT ![p].bytes = @ \o buf[p]]
    /\ buf' = [buf EXCEPT ![p] = <<>>]
    /\ fopen' = [fopen EXCEPT ![p] = FALSE]
    /\ pc' = [pc EXCEPT ![p] = "clone"]
    /\ UNCHANGED <<fs, op, proto, props, walk, result, sink, ghostVars>>

\* A write that leaves the temporary file the attributes mkstemp gave it.
clone_attr_skipped(p) ==
    /\ pc[p] = "clone"
    /\ pc' = [pc EXCEPT ![p] = "rename"]
    /\ UNCHANGED <<fs, tmp, fopen, op, proto, props, buf, walk, result, sink, ghostVars>>

\* proto_write_props, step 4: clone_attr copies the container's attributes
\* onto the temporary file; it has nothing to copy when the container is gone.
clone_attr(p) ==
    /\ pc[p] = "clone"
    /\ tmp' = [tmp EXCEPT ![p].attr = IF container.exists THEN container.attr ELSE @]
    /\ pc' = [pc EXCEPT ![p] = "rename"]
    /\ UNCHANGED <<fs, fopen, op, proto, props, buf, walk, result, sink, ghostVars>>

\* The values by name of an index in memory.
ValuesOf(idx) == [n \in CallerNames |-> IndexValue(idx, n)]

\* A set_prop or delete_prop returns true: what has been written, by name.
Returned(o) ==
    /\ written' = [written EXCEPT ![o.name] =
           IF o.kind = "set" THEN Some(o.value) ELSE None]
    /\ deleted' = IF o.kind = "delete" THEN deleted \cup {o.name} ELSE deleted
    /\ overwrote' = (overwrote \/ (o.kind = "set" /\ IsSome(written[o.name])))

\* proto_write_props, step 5: rename puts the temporary file in the place
\* of the container, and the call returns Ok.
write_rename(p) ==
    /\ pc[p] = "rename"
    /\ fs' = [fs EXCEPT ![ContainerPath] = tmp[p]]
    /\ tmp' = [tmp EXCEPT ![p] = NoFile]
    /\ pc' = [pc EXCEPT ![p] = "idle"]
    /\ result' = [result EXCEPT ![p] = "ok"]
    /\ Returned(op[p])
    /\ committed' = ValuesOf(props[p])
    /\ seen' = Observe(ValuesOf(props[p]))
    /\ lastRename' = p
    /\ UNCHANGED <<fopen, op, proto, props, buf, walk, sink, pre, tmppath, used, nchecks,
                   fault, failed, skipped, readErr, nops, extSteps, clean>>

\* ------------------------------------------------- the flat-file backend

\* file_get_prop for persist_get_prop: read_to_string of the file named
\* after the property; the sink gets the whole content.
file_get_prop(p) ==
    /\ pc[p] = "fget"
    /\ used' = [used EXCEPT ![p] = @ \cup {"file"}]
    /\ IF fs[op[p].name].exists
          THEN /\ sink' = [sink EXCEPT ![p] = << <<op[p].name, fs[op[p].name].bytes>> >>]
               /\ result' = [result EXCEPT ![p] = "ok"]
          ELSE /\ result' = [result EXCEPT ![p] = "err"]
               /\ UNCHANGED sink
    /\ pc' = [pc EXCEPT ![p] = "idle"]
    /\ UNCHANGED <<fs, tmp, fopen, op, proto, props, buf, walk, pre, tmppath, nchecks, fault, failed, skipped, readErr,
                   seen, nops, extSteps, clean, written, deleted, overwrote, committed, lastRename>>

\* persist_get_props, flat-file mode: Directory::open lists the directory.
dir_open(p) ==
    /\ pc[p] = "fopendir"
    /\ used' = [used EXCEPT ![p] = @ \cup {"file"}]
    /\ walk' = [walk EXCEPT ![p] = {e \in EntryNames : fs[e].exists}]
    /\ pc' = [pc EXCEPT ![p] = "fwalk"]
    /\ UNCHANGED <<fs, tmp, fopen, op, proto, props, buf, result, sink, pre, tmppath, nchecks,
                   fault, failed, skipped, readErr, seen, nops, extSteps, clean, written, deleted, overwrote, committed,
                   lastRename>>

\* for_all_file visits one more entry, in the directory's own order: the
\* sink is called if file_get_prop can read it, and the walk goes on.
dir_visit(p) ==
    /\ pc[p] = "fwalk"
    /\ \E e \in walk[p] :
        /\ walk' = [walk EXCEPT ![p] = @ \ {e}]
        /\ sink' = [sink EXCEPT ![p] =
               IF IsValidText(e) /\ fs[e].exists THEN Append(@, <<e, fs[e].bytes>>) ELSE @]
    /\ UNCHANGED <<fs, tmp, fopen, pc, op, proto, props, buf, result, ghostVars>>

\* for_all_file has visited every entry.
dir_done(p) ==
    /\ pc[p] = "fwalk"
    /\ walk[p] = {}
    /\ pc' = [pc EXCEPT ![p] = "idle"]
    /\ result' = [result EXCEPT ![p] = "ok"]
    /\ UNCHANGED <<fs, tmp, fopen, op, proto, props, buf, walk, sink, ghostVars>>

\* A flat-file set that opens the property's own file with truncation
\* instead of a temporary file.
file_open_in_place(p) ==
    /\ pc[p] = "fmkstemp"
    /\ used' = [used EXCEPT ![p] = @ \cup {"file"}]
    /\ fs' = [fs EXCEPT ![op[p].name] = File(<<>>, "mkstemp")]
    /\ tmp' = [tmp EXCEPT ![p] = File(<<>>, "mkstemp")]
    /\ fopen' = [fopen EXCEPT ![p] = TRUE]
    /\ pc' = [pc EXCEPT ![p] = "fwrite"]
    /\ tmppath' = [tmppath EXCEPT ![p] = FileTmpTemplate]
    /\ UNCHANGED <<op, proto, props, buf, walk, result, sink, pre, nchecks, fault, failed, skipped, readErr,
                   seen, nops, extSteps, clean, written, deleted, overwrote, committed, lastRename>>

\* file_set_prop with a value, step 1: mkstemp creates the temporary file.
file_mkstemp(p) ==
    /\ pc[p] = "fmkstemp"
    /\ used' = [used EXCEPT ![p] = @ \cup {"file"}]
    /\ tmp' = [tmp EXCEPT ![p] = File(<<>>, "mkstemp")]
    /\ fopen' = [fopen EXCEPT ![p] = TRUE]
    /\ pc' = [pc EXCEPT ![p] = "fwrite"]
    /\ tmppath' = [tmppath EXCEPT ![p] = FileTmpTemplate]
    /\ UNCHANGED <<fs, op, proto, props, buf, walk, result, sink, pre, nchecks, fault, failed, skipped, readErr,
                   seen, nops, extSteps, clean, written, deleted, overwrote, committed, lastRename>>

\* file_set_prop, step 2: write_all writes the value, unbuffered.
file_write(p) ==
    /\ pc[p] = "fwrite"
    /\ tmp' = [tmp EXCEPT ![p].bytes = op[p].value]
    /\ pc' = [pc EXCEPT ![p] = "fclose"]
    /\ UNCHANGED <<fs, fopen, op, proto, props, buf, walk, result, sink, ghostVars>>

\* file_set_prop, step 3: the block ends and the File is dropped.
file_close(p) ==
    /\ pc[p] = "fclose"
    /\ fopen' = [fopen EXCEPT ![p] = FALSE]
    /\ pc' = [pc EXCEPT ![p] = "frename"]
    /\ UNCHANGED <<fs, tmp, op, proto, props, buf, walk, result, sink, ghostVars>>

\* The store's values after the file of name n got value v (None: unlinked).
CommittedAfter(n, v) == [committed EXCEPT ![n] = v]

\* file_set_prop, step 4: rename puts the temporary file at the property's
\* path.
\* A rename that reports success and leaves the target as it was.
file_rename_no_target(p) ==
    /\ pc[p] = "frename"
    /\ tmp' = [tmp EXCEPT ![p] = NoFile]
    /\ pc' = [pc EXCEPT ![p] = "idle"]
    /\ result' = [result EXCEPT ![p] = "ok"]
    /\ Returned(op[p])
    /\ committed' = CommittedAfter(op[p].name, Some(op[p].value))
    /\ seen' = Observe(CommittedAfter(op[p].name, Some(op[p].value)))
    /\ UNCHANGED <<fs, fopen, op, proto, props, buf, walk, sink, pre, tmppath, used, nchecks,
                   fault, failed, skipped, readErr, nops, extSteps, clean, lastRename>>

file_rename(p) ==
    /\ pc[p] = "frename"
    /\ fs' = [fs EXCEPT ![op[p].name] = tmp[p]]
    /\ tmp' = [tmp EXCEPT ![p] = NoFile]
    /\ pc' = [pc EXCEPT ![p] = "idle"]
    /\ result' = [result EXCEPT ![p] = "ok"]
    /\ Returned(op[p])
    /\ committed' = CommittedAfter(op[p].name, Some(op[p].value))
    /\ seen' = Observe(CommittedAfter(op[p].name, Some(op[p].value)))
    /\ UNCHANGED <<fopen, op, proto, props, buf, walk, sink, pre, tmppath, used, nchecks,
                   fault, failed, skipped, readErr, nops, extSteps, clean, lastRename>>

\* file_set_prop without a value: remove_file unlinks the property's file,
\* and fails when there is none.
file_remove(p) ==
    /\ pc[p] = "fremove"
    /\ used' = [used EXCEPT ![p] = @ \cup {"file"}]
    /\ pc' = [pc EXCEPT ![p] = "idle"]
    /\ IF fs[op[p].name].exists
          THEN /\ fs' = [fs EXCEPT ![op[p].name] = NoFile]
               /\ result' = [result EXCEPT ![p] = "ok"]
               /\ Returned(op[p])
               /\ committed' = CommittedAfter(op[p].name, None)
               /\ seen' = Observe(CommittedAfter(op[p].name, None))
          ELSE /\ result' = [result EXCEPT ![p] = "err"]
               /\ UNCHANGED <<fs, written, deleted, overwrote, committed, seen>>
    /\ UNCHANGED <<tmp, fopen, op, proto, props, buf, walk, sink, pre, tmppath, nchecks, fault, failed, skipped, readErr,
                   nops, extSteps, clean, lastRename>>

\* --------------------------------------------------------------- failures

\* A step fails: the call records which, and the run is no longer clean.
Fails(p, step) ==
    /\ fault' = [fault EXCEPT ![p] = step]
    /\ failed' = [failed EXCEPT ![p] = @ \cup {step}]
    /\ clean' = FALSE
    /\ UNCHANGED <<pre, tmppath, used, nchecks, skipped, readErr, seen, nops, extSteps,
                   written, deleted, overwrote, committed, lastRename>>

\* The call returns Err from where it is.
ReturnsErr(p) ==
    /\ pc' = [pc EXCEPT ![p] = "idle"]
    /\ result' = [result EXCEPT ![p] = "err"]

\* mkstemp returns a negative descriptor (either backend): Err, no file.
\* In file_set_prop the template string is handed to mkstemp without a
\* terminating NUL, so whether it succeeds is not decided by the code; both
\* outcomes are steps of the model.
mkstemp_fails(p) ==
    /\ pc[p] \in {"mkstemp", "fmkstemp"}
    /\ ReturnsErr(p)
    /\ Fails(p, "mkstemp")
    /\ UNCHANGED <<fs, tmp, fopen, op, proto, props, buf, walk, sink>>

\* A write to the temporary file fails while write_message runs; this takes
\* a flush of the full buffer, so an index that fits in the buffer cannot
\* fail here.  The ? returns Err; the drop closes the file, which keeps
\* some part of the encoding.
write_encode_fails(p) ==
    /\ pc[p] = "encode"
    /\ BufWrite(Writer(<<>>, <<>>), Pieces(props[p])).file # <<>>
    /\ \E part \in StrictPrefixes(Encode(props[p])) :
          tmp' = [tmp EXCEPT ![p].bytes = part]
    /\ fopen' = [fopen EXCEPT ![p] = FALSE]
    /\ ReturnsErr(p)
    /\ Fails(p, "encode")
    /\ UNCHANGED <<fs, op, proto, props, buf, walk, sink>>

\* The flush of the buffered bytes fails when the BufWriter is dropped: the
\* drop ignores the error, the file keeps a part of the bytes, and
\* proto_write_props goes on to clone_attr and rename.
write_close_fails(p) ==
    /\ pc[p] = "close"
    /\ \E part \in StrictPrefixes(buf[p]) :
          tmp' = [tmp EXCEPT ![p].bytes = @ \o part]
    /\ buf' = [buf EXCEPT ![p] = <<>>]
    /\ fopen' = [fopen EXCEPT ![p] = FALSE]
    /\ pc' = [pc EXCEPT ![p] = "clone"]
    /\ Fails(p, "flush")
    /\ UNCHANGED <<fs, op, proto, props, walk, result, sink>>

\* A clone_attr whose failure ends the write with an error.
clone_attr_fails_fatal(p) ==
    /\ pc[p] = "clone"
    /\ ReturnsErr(p)
    /\ Fails(p, "clone")
    /\ UNCHANGED <<fs, tmp, fopen, op, proto, props, buf, walk, sink>>

\* clone_attr fails: its result is not looked at, the temporary file keeps
\* the attributes mkstemp gave it, and proto_write_props goes on to rename.
clone_attr_fails(p) ==
    /\ pc[p] = "clone"
    /\ pc' = [pc EXCEPT ![p] = "rename"]
    /\ Fails(p, "clone")
    /\ UNCHANGED <<fs, tmp, fopen, op, proto, props, buf, walk, result, sink>>

\* rename fails (either backend): Err; the temporary file stays.
rename_fails(p) ==
    /\ pc[p] \in {"rename", "frename"}
    /\ ReturnsErr(p)
    /\ Fails(p, "rename")
    /\ UNCHANGED <<fs, tmp, fopen, op, proto, props, buf, walk, sink>>

\* write_all fails in file_set_prop: Err; the drop closes the file, which
\* keeps a part of the value.
file_write_fails(p) ==
    /\ pc[p] = "fwrite"
    /\ \E part \in StrictPrefixes(op[p].value) :
          tmp' = [tmp EXCEPT ![p].bytes = part]
    /\ fopen' = [fopen EXCEPT ![p] = FALSE]
    /\ ReturnsErr(p)
    /\ Fails(p, "write")
    /\ UNCHANGED <<fs, op, proto, props, buf, walk, sink>>

\* read_to_string fails on a file that exists (persist_get_prop): Err.
file_get_prop_fails(p) ==
    /\ pc[p] = "fget"
    /\ fs[op[p].name].exists
    /\ ReturnsErr(p)
    /\ fault' = [fault EXCEPT ![p] = "read"]
    /\ failed' = [failed EXCEPT ![p] = @ \cup {"read"}]
    /\ used' = [used EXCEPT ![p] = @ \cup {"file"}]
    /\ clean' = FALSE
    /\ UNCHANGED <<fs, tmp, fopen, op, proto, props, buf, walk, sink, pre, tmppath, nchecks,
                   skipped, readErr, seen, nops, extSteps, written, deleted, overwrote, committed, lastRename>>

\* A walk that a failed read ends with the error.
dir_visit_fails_aborts(p) ==
    /\ pc[p] = "fwalk"
    /\ \E e \in walk[p] :
        /\ IsValidText(e)
        /\ fs[e].exists
        /\ skipped' = [skipped EXCEPT ![p] = @ \cup {e}]
    /\ ReturnsErr(p)
    /\ fault' = [fault EXCEPT ![p] = "read"]
    /\ failed' = [failed EXCEPT ![p] = @ \cup {"read"}]
    /\ clean' = FALSE
    /\ UNCHANGED <<pre, tmppath, used, nchecks, readErr, seen, nops, extSteps,
                   written, deleted, overwrote, committed, lastRename>>
    /\ UNCHANGED <<fs, tmp, fopen, op, proto, props, buf, walk, sink>>

\* read_to_string fails on an entry of the walk: the entry is skipped.
dir_visit_fails(p) ==
    /\ pc[p] = "fwalk"
    /\ \E e \in walk[p] :
        /\ IsValidText(e)
        /\ fs[e].exists
        /\ walk' = [walk EXCEPT ![p] = @ \ {e}]
        /\ skipped' = [skipped EXCEPT ![p] = @ \cup {e}]
    /\ fault' = [fault EXCEPT ![p] = "read"]
    /\ failed' = [failed EXCEPT ![p] = @ \cup {"read"}]
    /\ clean' = FALSE
    /\ UNCHANGED <<pre, tmppath, used, nchecks, readErr, seen, nops, extSteps,
                   written, deleted, overwrote, committed, lastRename>>
    /\ UNCHANGED <<fs, tmp, fopen, pc, op, proto, props, buf, result, sink>>

\* remove_file fails on a file that exists: Err, the file stays.
file_remove_fails(p) ==
    /\ pc[p] = "fremove"
    /\ fs[op[p].name].exists
    /\ ReturnsErr(p)
    /\ fault' = [fault EXCEPT ![p] = "unlink"]
    /\ failed' = [failed EXCEPT ![p] = @ \cup {"unlink"}]
    /\ used' = [used EXCEPT ![p] = @ \cup {"file"}]
    /\ clean' = FALSE
    /\ UNCHANGED <<fs, tmp, fopen, op, proto, props, buf, walk, sink, pre, tmppath, nchecks,
                   skipped, readErr, seen, nops, extSteps, written, deleted, overwrote, committed, lastRename>>

\* ------------------------------------------------------ the external actor

\* The contents the external actor gives a container it creates.
ExtContents ==
    {Encode(<<>>), Encode(<<Record(Some(<<1>>), Some(<<5, 6>>))>>)}

\* The store is migrated to container mode: the container appears.
ext_create(p) ==
    /\ p = 0
    /\ extSteps < MaxExt
    /\ ~container.exists
    /\ \E bytes \in ExtContents :
        /\ fs' = [fs EXCEPT ![ContainerPath] = File(bytes, "orig")]
        /\ committed' = ValuesOf(Decode(bytes).props)
        /\ seen' = Observe(ValuesOf(Decode(bytes).props))
    /\ extSteps' = extSteps + 1
    /\ UNCHANGED <<procVars, pre, tmppath, used, nchecks, fault, failed, skipped, readErr, nops, clean, written, deleted, overwrote,
                   lastRename>>

\* The store is migrated to flat-file mode: the container disappears.
ext_remove(p) ==
    /\ p = 0
    /\ extSteps < MaxExt
    /\ container.exists
    /\ fs' = [fs EXCEPT ![ContainerPath] = NoFile]
    /\ extSteps' = extSteps + 1
    /\ UNCHANGED <<procVars, pre, tmppath, used, nchecks, fault, failed, skipped, readErr, seen, nops, clean, written, deleted, overwrote,
                   committed, lastRename>>

\* --------------------------------------------------------- specifications

\* The steps of persist_get_prop and persist_set_prop in which nothing fails.
GetSetStep(p) ==
    \/ persist_get_prop(p)
    \/ persist_set_prop(p)
    \/ check_proto(p)
    \/ proto_read_props(p)
    \/ write_mkstemp(p)
    \/ write_encode(p)
    \/ write_close(p)
    \/ clone_attr(p)
    \/ write_rename(p)
    \/ file_get_prop(p)
    \/ file_mkstemp(p)
    \/ file_write(p)
    \/ file_close(p)
    \/ file_rename(p)

\* The steps only persist_get_props and persist_delete_prop take.
OtherStep(p) ==
    \/ persist_get_props(p)
    \/ persist_delete_prop(p)
    \/ dir_open(p)
    \/ dir_visit(p)
    \/ dir_done(p)
    \/ file_remove(p)

\* The steps of a call of process p in which a file-system call fails.
Fault(p) ==
    \/ mkstemp_fails(p)
    \/ write_encode_fails(p)
    \/ write_close_fails(p)
    \/ clone_attr_fails(p)
    \/ rename_fails(p)
    \/ file_write_fails(p)
    \/ file_get_prop_fails(p)
    \/ dir_visit_fails(p)
    \/ file_remove_fails(p)

\* One caller, whose file-system calls may fail.
Next == \E p \in {1} : GetSetStep(p) \/ OtherStep(p) \/ Fault(p)
Spec == Init /\ [][Next]_vars

\* Two callers of persist_get_prop and persist_set_prop, making up to
\* MaxConcOps calls between them, whose steps interleave; no file-system call
\* fails.  The store is empty or holds one property when they begin.
NextConc ==
    \E p \in Procs : /\ pc[p] = "idle" => nops < MaxConcOps
                     /\ GetSetStep(p)
SpecConc == InitConc /\ [][NextConc]_vars

\* One caller, making up to MaxExtOps calls, and the external actor that
\* migrates the store between the modes; no file-system call fails.
NextExt ==
    \/ \E p \in {1} : /\ pc[p] = "idle" => nops < MaxExtOps
                      /\ GetSetStep(p) \/ OtherStep(p)
    \/ ext_create(0)
    \/ ext_remove(0)
SpecExt == Init /\ [][NextExt]_vars

\* The calls on the name of the container's file.
ContainerNameCall(p) ==
    \/ get_prop_container_name(p)
    \/ delete_prop_container_name(p)
    \/ set_prop_container_name(p)

\* The reads of a flat file that fail.
ReadFault(p) ==
    \/ file_get_prop_fails(p)
    \/ dir_visit_fails(p)

\* One caller, making up to MaxAnyOps calls on a store it did not write, with
\* any valid name; its reads of flat files may fail, and the external actor
\* may remove the container.
NextAny ==
    \/ \E p \in {1} : /\ pc[p] = "idle" => nops < MaxAnyOps
                      /\ GetSetStep(p) \/ OtherStep(p) \/ ReadFault(p) \/ ContainerNameCall(p)
    \/ ext_remove(0)
SpecAny == InitAny /\ [][NextAny]_vars

\* ------------------------------------------------------------ properties

\* The call of p has returned.
Finished(p) == pc[p] = "idle" /\ result[p] # "pending"

\* The call of p is a set_prop or delete_prop that took the container backend.
ContainerWrite(p) == op[p].kind \in {"set", "delete"} /\ proto[p]

\* The container as it was when the call of p began.
PreContainer(p) == pre[p][ContainerPath]

\* The names set_prop has stored, none of them deleted since.
WrittenNames == {n \in Names : IsSome(written[n])}

\* Whether the store holds the name: a record of the container in container
\* mode, a file named after the property in flat-file mode.
InStore(files, n) ==
    IF files[ContainerPath].exists
       THEN /\ Decode(files[ContainerPath].bytes).ok
            /\ \E i \in 1..Len(Decode(files[ContainerPath].bytes).props) :
                   Decode(files[ContainerPath].bytes).props[i].name = Some(n)
       ELSE files[n].exists

C2_CrashAtomicity ==
    \A p \in Procs :
        (ContainerWrite(p) /\ fault[p] = "none" /\ pc[p] # "check") =>
            /\ ~(Finished(p) /\ result[p] = "ok") => container = PreContainer(p)
            /\ container.bytes \in {PreContainer(p).bytes, Encode(props[p])}

\* C2, its case: the new content is complete in the temporary file, the
\* rename has not happened, and the container still has the old content.
C2_NewContentNotYetVisible ==
    \E p \in Procs :
        /\ ContainerWrite(p) /\ fault[p] = "none"
        /\ pc[p] = "rename"
        /\ tmp[p].bytes = Encode(props[p])
        /\ container.bytes # tmp[p].bytes
        /\ container.bytes # <<>>

\* C3: a container-mode set_prop or delete_prop in which the encoding, the
\* flush or the rename fails leaves the container as it was and returns false.
C3_FailureLeavesContainer ==
    \A p \in Procs :
        (Finished(p) /\ ContainerWrite(p) /\ fault[p] \in {"encode", "flush", "rename"}) =>
            /\ result[p] = "err"
            /\ container = PreContainer(p)

\* C4: in container mode persist_get_props calls the sink in strictly
\* ascending order of the names.
C4_SortedEnumeration ==
    \A p \in Procs :
        (Finished(p) /\ op[p].kind = "get_all" /\ proto[p]) =>
            \A i \in 1..(Len(sink[p]) - 1) : StrLess(sink[p][i][1], sink[p][i + 1][1])

\* C4, its case: an enumeration of two or more properties.
C4_EnumeratedSeveral ==
    \E p \in Procs :
        /\ Finished(p) /\ op[p].kind = "get_all" /\ proto[p]
        /\ Len(sink[p]) >= 2

\* C5: persist_delete_prop of a name the store does not hold returns false
\* and leaves the store as it was; of a name the store holds it returns true,
\* and the store does not hold the name afterwards (no file-system call of
\* the delete failing).
C5_DeleteReportsAbsence ==
    \A p \in Procs :
        (Finished(p) /\ op[p].kind = "delete" /\ fault[p] = "none") =>
            /\ ~InStore(pre[p], op[p].name) => (result[p] = "err" /\ fs = pre[p])
            /\ InStore(pre[p], op[p].name) =>
                   (result[p] = "ok" /\ ~InStore(fs, op[p].name))

\* C5, its case: the second delete of a name returns false.
C5_DeletedTwice ==
    \E p \in Procs :
        /\ Finished(p) /\ op[p].kind = "delete" /\ fault[p] = "none"
        /\ op[p].name \in deleted
        /\ ~InStore(pre[p], op[p].name)
        /\ result[p] = "err"

C7_NoTornRead ==
    \A p \in Procs :
        op[p].kind = "get" =>
            \A i \in 1..Len(sink[p]) :
                /\ sink[p][i][1] = op[p].name
                /\ Some(sink[p][i][2]) \in seen[p]

\* C7, its case: the value changed while the reader was in its call.
C7_ReadBesideWrite ==
    \E p \in Procs :
        /\ Finished(p) /\ op[p].kind = "get"
        /\ sink[p] # <<>>
        /\ \E v, w \in Values : v # w /\ {Some(v), Some(w)} \subseteq seen[p]

\* C8: of two container-mode writers side by side, the container is in full
\* the index of the writer whose rename came last, that writer's change
\* included.
C8_LastRenameWins ==
    \A p \in Procs :
        (lastRename = p /\ Finished(p) /\ op[p].kind = "set" /\ proto[p] /\ result[p] = "ok") =>
            /\ container.bytes = Encode(props[p])
            /\ IndexValue(Decode(container.bytes).props, op[p].name) = Some(op[p].value)

\* C8, its case: both writers returned true and the change of the one whose
\* rename came first is not in the container.
C8_LostUpdate ==
    \E p, q \in Procs :
        /\ p # q /\ lastRename = p
        /\ Finished(p) /\ op[p].kind = "set" /\ proto[p] /\ result[p] = "ok"
        /\ Finished(q) /\ op[q].kind = "set" /\ proto[q] /\ result[q] = "ok"
        /\ op[p].name # op[q].name
        /\ IndexValue(Decode(container.bytes).props, op[q].name) # Some(op[q].value)

\* C9 as stated: a set_prop that took the container backend and then finds
\* no container to decode succeeds and leaves a container holding exactly
\* the new property.
C9_MissingContainerIsEmptyIndex ==
    \A p \in Procs :
        (Finished(p) /\ op[p].kind = "set" /\ readErr[p] = "noent") =>
            /\ result[p] = "ok"
            /\ container.exists
            /\ container.bytes = Encode(<<Record(Some(op[p].name), Some(op[p].value))>>)

\* C9: a set_prop that took the container backend and then finds no
\* container to decode returns false at once: no temporary file, no other
\* backend.
C9_MissingContainerFails ==
    \A p \in Procs :
        (op[p].kind = "set" /\ readErr[p] = "noent") =>
            /\ Finished(p)
            /\ result[p] = "err"
            /\ ~tmp[p].exists
            /\ used[p] = {"proto"}

\* C9, its case: a set_prop found the container gone.
C9_SetFoundNoContainer ==
    \E p \in Procs :
        /\ op[p].kind = "set" /\ proto[p]
        /\ readErr[p] = "noent"

\* C10 as stated: through a container-mode set_prop or delete_prop the file
\* at the container's path has the attributes the container had before the
\* call, the clone-attributes step failing or not.
C10_AttributesAlwaysPreserved ==
    \A p \in Procs :
        (ContainerWrite(p) /\ pc[p] # "check" /\ container.exists) =>
            container.attr = PreContainer(p).attr

\* C10: through a container-mode set_prop or delete_prop the file at the
\* container's path has the attributes the container had before the call,
\* unless the clone-attributes step failed: then the rename still happens,
\* the call returns true and the container has the attributes of mkstemp.
C10_AttributesPreservedUnlessCloneFails ==
    \A p \in Procs :
        (ContainerWrite(p) /\ pc[p] # "check" /\ container.exists) =>
            \/ container.attr = PreContainer(p).attr
            \/ /\ fault[p] = "clone"
               /\ Finished(p) /\ result[p] = "ok"
               /\ container.attr = "mkstemp"

\* C10, its case: the rename put new content under the old attributes.
C10_ReplacedWithOldAttributes ==
    \E p \in Procs :
        /\ ContainerWrite(p) /\ Finished(p) /\ result[p] = "ok"
        /\ fault[p] = "none"
        /\ container.bytes # PreContainer(p).bytes
        /\ container.attr = "orig"

\* The names of the records of a container file; none when it does not
\* decode.
NamesIn(file) ==
    IF file.exists /\ Decode(file.bytes).ok
       THEN {Decode(file.bytes).props[i].name : i \in 1..Len(Decode(file.bytes).props)}
       ELSE {}

\* C11: persist_get_prop calls the sink at most once, and not at all when
\* the container is missing or does not decode, when the flat file cannot be
\* read, or when the store does not hold the name.
C11_GetSinkDiscipline ==
    \A p \in Procs :
        op[p].kind = "get" =>
            /\ Len(sink[p]) <= 1
            /\ readErr[p] # "none" => sink[p] = <<>>
            /\ "read" \in failed[p] => sink[p] = <<>>
            /\ (Finished(p) /\ proto[p] /\ Some(op[p].name) \notin NamesIn(PreContainer(p))) =>
                   sink[p] = <<>>
            /\ (Finished(p) /\ ~proto[p] /\ ~fs[op[p].name].exists) => sink[p] = <<>>

\* C11, its case: the container holds two records of the name, both with a
\* value, and the sink is called once.
C11_OneOfTwoRecords ==
    \E p \in Procs :
        /\ Finished(p) /\ op[p].kind = "get" /\ proto[p]
        /\ Len(props[p]) = 2
        /\ props[p][1].name = Some(op[p].name) /\ IsSome(props[p][1].value)
        /\ props[p][2].name = Some(op[p].name) /\ IsSome(props[p][2].value)
        /\ Len(sink[p]) = 1

\* The index of the call of p, once proto_read_props has returned it.
HasIndex(p) == proto[p] /\ pc[p] \notin {"check", "read"} /\ readErr[p] = "none"

\* The order of an index: no name below the one before it (equal names may
\* be neighbours), or every name above the one before it.
NonDecreasing(list) ==
    \A i \in 1..(Len(list) - 1) : ~OptLess(list[i + 1].name, list[i].name)
StrictlyIncreasing(list) ==
    \A i \in 1..(Len(list) - 1) : OptLess(list[i].name, list[i + 1].name)

\* Whether no two records of a list have the same name.
DistinctNames(list) ==
    \A i, j \in 1..Len(list) : list[i].name = list[j].name => i = j

\* C12 as stated: the index decoded from any decodable container, and the
\* index a set or delete writes back, is strictly increasing by name.
C12_IndexStrictlyIncreasing ==
    \A p \in Procs : HasIndex(p) => StrictlyIncreasing(props[p])

\* C12: the index decoded from any decodable container, and the index a set
\* or delete writes back, is in non-decreasing order of the names; it is
\* strictly increasing when no two records of the container share a name.
\* A set adds at most one record and a delete removes exactly one: records
\* of a repeated name are not merged.
C12_IndexSorted ==
    \A p \in Procs :
        HasIndex(p) =>
            /\ NonDecreasing(props[p])
            /\ DistinctNames(Decode(PreContainer(p).bytes).props) =>
                   StrictlyIncreasing(props[p])
            /\ Len(props[p]) - Len(Decode(PreContainer(p).bytes).props) \in
                   (CASE op[p].kind = "set" -> {0, 1}
                      [] op[p].kind = "delete" /\ pc[p] # "idle" -> {-1}
                      [] op[p].kind = "delete" /\ result[p] = "ok" -> {-1}
                      [] OTHER -> {0})

\* C12, its case: a container with two names out of order, and the index
\* written back by a set_prop in order.
C12_SortedOnDecode ==
    \E p \in Procs :
        /\ HasIndex(p) /\ Finished(p) /\ op[p].kind = "set" /\ result[p] = "ok"
        /\ Len(Decode(PreContainer(p).bytes).props) = 2
        /\ ~NonDecreasing(Decode(PreContainer(p).bytes).props)
        /\ StrictlyIncreasing(props[p])
        /\ container.bytes = Encode(props[p])

\* The call of p runs the write protocol: a container-mode set_prop or
\* delete_prop, or a flat-file set_prop.
UsesWriteProtocol(p) == ContainerWrite(p) \/ (op[p].kind = "set" /\ ~proto[p])

\* The steps of the write protocol, each with the step that follows it.
WriteOrder ==
    {<<"mkstemp", "encode">>, <<"encode", "close">>, <<"close", "clone">>,
     <<"clone", "rename">>, <<"fmkstemp", "fwrite">>, <<"fwrite", "fclose">>,
     <<"fclose", "frename">>}

\* C13: the write protocol goes from mkstemp to the write, to the close of
\* the handle, (container mode) to clone_attr, to the rename, or returns an
\* error on the way; the rename is the last step and is made with the handle
\* closed; nothing but a successful rename changes a file of the directory.
C13_WriteOrder ==
    [][\A p \in Procs :
          (UsesWriteProtocol(p) /\ pc'[p] # pc[p] /\ pc[p] \notin {"idle", "check", "read"}) =>
              /\ \/ <<pc[p], pc'[p]>> \in WriteOrder
                 \/ pc'[p] = "idle" /\ result'[p] = "err"
                 \/ pc[p] \in {"rename", "frename"} /\ pc'[p] = "idle" /\ result'[p] = "ok"
              /\ pc[p] \in {"rename", "frename"} => (~fopen[p] /\ tmp[p].exists)
              /\ fs' # fs =>
                     /\ pc[p] \in {"rename", "frename"}
                     /\ result'[p] = "ok"
                     /\ fs' = [fs EXCEPT ![IF proto[p] THEN ContainerPath ELSE op[p].name] = tmp[p]]
      ]_vars

\* C13, its case: a flat-file set_prop has written the value and closed the
\* handle, and the rename is still to come.
C13_ClosedBeforeRename ==
    \E p \in Procs :
        /\ UsesWriteProtocol(p) /\ pc[p] = "frename"
        /\ ~fopen[p]
        /\ tmp[p].bytes = op[p].value
        /\ fs[op[p].name].bytes # op[p].value

\* C14: when a container-mode set_prop or delete_prop has failed in the
\* encoding or in the rename, its temporary file is gone by the time the
\* call returns.
C14_TempRemovedOnFailure ==
    \A p \in Procs :
        (Finished(p) /\ ContainerWrite(p) /\ result[p] = "err"
                     /\ failed[p] \cap {"encode", "rename"} # {}) =>
            ~tmp[p].exists

\* C15: a container-mode set_prop or delete_prop in which clone_attr fails
\* and nothing else does still renames: the container is the encoding of
\* the new index and the call returns true.
C15_CloneFailureNotFatal ==
    \A p \in Procs :
        (ContainerWrite(p) /\ failed[p] = {"clone"}) =>
            /\ pc[p] \in {"rename", "idle"}
            /\ pc[p] = "idle" =>
                   /\ result[p] = "ok"
                   /\ container.bytes = Encode(props[p])
                   /\ ~tmp[p].exists

\* C15, its case: the call has returned true after a failed clone_attr, and
\* the container has new content.
C15_RenamedAfterCloneFailure ==
    \E p \in Procs :
        /\ ContainerWrite(p) /\ failed[p] = {"clone"}
        /\ Finished(p) /\ result[p] = "ok"
        /\ container.bytes # PreContainer(p).bytes

\* How often the sink was called for the name e.
SinkCallsFor(p, e) == Cardinality({i \in 1..Len(sink[p]) : sink[p][i][1] = e})

\* C16: in flat-file mode persist_get_props calls the sink exactly once,
\* with name and whole content, for every entry of the directory whose name
\* is valid text and whose read succeeds, and not for the others, which do
\* not stop the walk.
C16_FlatEnumeration ==
    \A p \in Procs :
        (Finished(p) /\ op[p].kind = "get_all" /\ ~proto[p]) =>
            /\ result[p] = "ok"
            /\ \A e \in EntryNames :
                   SinkCallsFor(p, e) =
                       IF IsValidText(e) /\ fs[e].exists /\ e \notin skipped[p] THEN 1 ELSE 0
            /\ \A i \in 1..Len(sink[p]) : sink[p][i][2] = fs[sink[p][i][1]].bytes

\* C16, its case: a directory with an entry of an invalid name and an entry
\* whose read failed, and a third entry that reached the sink.
C16_SkippedTwoReportedOne ==
    \E p \in Procs :
        /\ Finished(p) /\ op[p].kind = "get_all" /\ ~proto[p]
        /\ fs[BadName].exists
        /\ skipped[p] # {}
        /\ Len(sink[p]) = 1

\* Whether a persist_get_prop of the name, made on the container the call of
\* p found, could have called the sink.
WouldGet(p) ==
    /\ Decode(PreContainer(p).bytes).ok
    /\ \E s \in SortResults(Decode(PreContainer(p).bytes).props) :
           GetCalls(s, op[p].name) # <<>>

\* A container-mode delete_prop that has returned, its container there to
\* be decoded and none of its file-system calls failing.
DeleteReturned(p) ==
    /\ Finished(p) /\ op[p].kind = "delete" /\ proto[p]
    /\ readErr[p] # "noent" /\ failed[p] = {}

\* C17 as stated: a container-mode delete_prop returns true exactly when a
\* get_prop of the name just before it would have called the sink.
C17_DeleteAgreesWithGet ==
    \A p \in Procs : DeleteReturned(p) => (result[p] = "ok" <=> WouldGet(p))

\* C17: a container-mode delete_prop returns true exactly when the decoded
\* index holds a record of the name, with a value or without; so it returns
\* true whenever a get_prop just before it would have called the sink, and
\* the container it leaves holds one record less.
C17_DeleteAgreesWithFindIndex ==
    \A p \in Procs :
        DeleteReturned(p) =>
            /\ result[p] = "ok" <=> Some(op[p].name) \in NamesIn(PreContainer(p))
            /\ WouldGet(p) => result[p] = "ok"
            /\ (result[p] = "ok" /\ container.exists) =>
                   /\ Decode(container.bytes).ok
                   /\ Len(Decode(container.bytes).props)
                          = Len(Decode(PreContainer(p).bytes).props) - 1

\* C17, its case: the only record of the name has no value: a get_prop
\* reports nothing, the delete_prop removes it and returns true.
C17_DeletedRecordWithoutValue ==
    \E p \in Procs :
        /\ DeleteReturned(p) /\ result[p] = "ok"
        /\ ~WouldGet(p)
        /\ container.exists /\ Some(op[p].name) \notin NamesIn(container)

\* Whether the mode check answers after the call of p what it answered when
\* the call began.
ModeKept(p) == container.exists <=> PreContainer(p).exists

\* A flat-file persist_set_prop on the name that is the container's file
\* name, which has returned true.
FlatSetOnContainerName(p) ==
    /\ op[p].kind = "set" /\ ~proto[p]
    /\ op[p].name = PersistName /\ result[p] = "ok"

GetResults(files, name) ==
    IF files[ContainerPath].exists
       THEN IF Decode(files[ContainerPath].bytes).ok
               THEN {GetCalls(s, name) :
                        s \in SortResults(Decode(files[ContainerPath].bytes).props)}
               ELSE {<<>>}
       ELSE {IF files[name].exists THEN <<<<name, files[name].bytes>>>> ELSE <<>>}

\* The records of a container that lack a name or a value.
RecordsNotLive(file) ==
    {r \in {Decode(file.bytes).props[i] : i \in 1..Len(Decode(file.bytes).props)} :
        ~IsLive(r)}

\* C19 as stated: a set_prop or delete_prop of a name, successful or failed,
\* leaves what get_prop reports for every other name as it was, and a
\* container-mode rewrite carries over the records lacking a name or a value.
C19_FrameOfSetAndDelete ==
    \A p \in Procs :
        (Finished(p) /\ op[p].kind \in {"set", "delete"}) =>
            /\ \A m \in CallerNames \ {op[p].name} :
                   GetResults(fs, m) = GetResults(pre[p], m)
            /\ proto[p] => RecordsNotLive(container) = RecordsNotLive(PreContainer(p))

\* C20: a temporary file is created in the directory of the file it is to
\* replace: the flat-file directory for a flat-file set_prop, the container's
\* directory for a container-mode write.
C20_TempInTargetDirectory ==
    \A p \in Procs :
        tmp[p].exists =>
            Dirname(tmppath[p]) = IF proto[p] THEN Dirname(PERSIST_PROP) ELSE PERSIST_PROP_DIR

====
